---------------------------- MODULE Spec2Model ----------------------------
(***************************************************************************)
(* A model of jchoi5me/trim: the streaming trim engine (trim_custom), the  *)
(* line source it reads from (readlines = BufReader::lines), the in-place  *)
(* replacement of one file (trim_file) and the parallel batch over many    *)
(* files (trim_files).                                                     *)
(*                                                                         *)
(* Two specifications share the module:                                    *)
(*   EngineSpec  runs trim_custom over one input, for both values of       *)
(*               suppress_newline and for the input with one more '\n'.    *)
(*   FileSpec    runs trim_files over a batch of paths on a file system    *)
(*               of directory entries and inodes.                         *)
(* Bytes are their integer codes; a text is a sequence of bytes.           *)
(***************************************************************************)
EXTENDS Integers, Sequences, FiniteSets, TLC

(***************************************************************************)
(* Bounds of the model.                                                    *)
(***************************************************************************)
\* longest input of the engine runs, in bytes
MaxLen == 4
\* most environment failures (a failing write, copy, open, rename) per run
MaxFaults == 1
\* most paths handed to trim_files
MaxBatch == 2
\* the size of the largest file the disk has room for, in bytes
MaxFile == 8

(***************************************************************************)
(* Bytes.                                                                  *)
(***************************************************************************)
\* '\n', the line break the engine writes and the line source splits on
LF == 10
\* '\r': whitespace for the regex, part of a "\r\n" break for the line source
CR == 13
\* ' '
SP == 32
\* a byte that is no whitespace ('a')
A == 97
\* a byte that is no valid UTF-8 (the line source reports a read error)
BAD == 255
\* the byte a hole of a file reads as (a write past the end of a file)
NUL == 0

Alphabet == {LF, CR, SP, A, BAD}

\* all texts of at most n bytes over the alphabet
Texts(n) == UNION {[1..k -> Alphabet] : k \in 0..n}

IsWsNoCR(b) == b \in {9, 10, 11, 12, 32}

\* the whitespace of the regex class \s among one-byte characters
IsWs(b) == b \in {9, 10, 11, 12, 13, 32}

(***************************************************************************)
(* The line source: BufReader::lines over a file.                          *)
(***************************************************************************)
\* index of the first '\n' of a text, 0 when it holds none
FirstLF(t) == IF \E i \in 1..Len(t) : t[i] = LF
              THEN CHOOSE i \in 1..Len(t) : t[i] = LF /\ \A j \in 1..(i-1) : t[j] # LF
              ELSE 0

\* what lines() does to the bytes read for one line: a final "\n" is dropped,
\* and a "\r" before that "\n" too; a "\r" that ends the input stays
StripEol(raw) ==
    IF raw # <<>> /\ raw[Len(raw)] = LF
    THEN LET t == SubSeq(raw, 1, Len(raw) - 1)
         IN IF t # <<>> /\ t[Len(t)] = CR THEN SubSeq(t, 1, Len(t) - 1) ELSE t
    ELSE raw

\* one call of the iterator's next(): the reader holds the bytes it has
\* buffered (buf) and its offset in the file (off); data are the file's bytes
\* now. A file shorter than the buffer is read whole by the first call.
\*   some = FALSE: the end of the input;  ok = FALSE: a read error
NextLine(rbuf, roff, data) ==
    LET more  == IF FirstLF(rbuf) > 0 THEN <<>> ELSE SubSeq(data, roff + 1, Len(data))
        avail == rbuf \o more
        noff  == IF FirstLF(rbuf) > 0 \/ roff >= Len(data) THEN roff ELSE Len(data)
        i     == FirstLF(avail)
        raw   == IF i > 0 THEN SubSeq(avail, 1, i) ELSE avail
        rest  == IF i > 0 THEN SubSeq(avail, i + 1, Len(avail)) ELSE <<>>
    IN [some |-> avail # <<>>,
        ok   |-> \A k \in 1..Len(raw) : raw[k] # BAD,
        line |-> StripEol(raw),
        buf  |-> rest,
        off  |-> noff]

\* the whole sequence of lines of a file that holds valid text
RECURSIVE AllLines(_)
AllLines(data) ==
    IF data = <<>> THEN <<>>
    ELSE LET i == FirstLF(data)
         IN IF i = 0 THEN <<StripEol(data)>>
            ELSE <<StripEol(SubSeq(data, 1, i))>> \o AllLines(SubSeq(data, i + 1, Len(data)))

(***************************************************************************)
(* The engine's pure parts (trim_custom).                                  *)
(***************************************************************************)
\* trailing_ws.replace(&line, ""): the line without its maximal whitespace suffix
RECURSIVE Trim(_)
Trim(line) ==
    IF line = <<>> THEN <<>>
    ELSE IF IsWs(line[Len(line)]) THEN Trim(SubSeq(line, 1, Len(line) - 1))
    ELSE line

\* line.len() - trimmed_line.len()
Removed(line) == Len(line) - Len(Trim(line))

\* the visualization of a line, an Option: a record when bytes were removed
Visual(num, line) ==
    IF Removed(line) > 0
    THEN <<[num |-> num, text |-> Trim(line), pad |-> Removed(line)]>>
    ELSE <<>>

\* (0..lf_count).map(|_| '\n')
Lfs(n) == [i \in 1..n |-> LF]

FoldOutSqueeze(lf, trimmed) ==
    IF trimmed = <<>> THEN <<>> ELSE (IF lf > 0 THEN <<LF>> ELSE <<>>) \o trimmed

FoldOutEager(lf, trimmed) == IF trimmed = <<>> THEN <<LF>> ELSE trimmed

\* what the fold's closure writes to out for one line
FoldOut(lf, trimmed) == IF trimmed = <<>> THEN <<>> ELSE Lfs(lf) \o trimmed

FoldAccDoubleBlank(lf, total, trimmed, saved) ==
    IF trimmed = <<>> THEN <<lf + 2, total + saved>> ELSE <<1, total + saved>>

FoldAccNoDefer(lf, total, trimmed, saved) ==
    IF trimmed = <<>> THEN <<lf + 1, total + saved>> ELSE <<0, total + saved>>

\* the accumulator (lf_count, total) the closure returns for one line
FoldAcc(lf, total, trimmed, saved) ==
    IF trimmed = <<>> THEN <<lf + 1, total + saved>> ELSE <<1, total + saved>>

FinalBytesAlways(suppress_newline) == <<LF>>

\* what is written after the fold
FinalBytes(suppress_newline) == IF suppress_newline THEN <<>> ELSE <<LF>>

BytesSavedAlwaysMinusOne(lf_trimmed, u8_trimmed, suppress_newline) ==
    (u8_trimmed + lf_trimmed) - 1 + (IF suppress_newline THEN 1 ELSE 0)

BytesSavedEmptyAsOneLine(lf_trimmed, u8_trimmed, suppress_newline) ==
    (u8_trimmed + lf_trimmed)
    + (IF lf_trimmed <= 1 THEN -1 ELSE 0)
    + (IF suppress_newline THEN 1 ELSE 0)

BytesSavedNoCompensation(lf_trimmed, u8_trimmed, suppress_newline) ==
    (u8_trimmed + lf_trimmed) + (IF lf_trimmed = 1 THEN -1 ELSE 0)

BytesSavedNoCorrection(lf_trimmed, u8_trimmed, suppress_newline) ==
    (u8_trimmed + lf_trimmed) + (IF suppress_newline THEN 1 ELSE 0)

\* the total the engine returns
BytesSaved(lf_trimmed, u8_trimmed, suppress_newline) ==
    (u8_trimmed + lf_trimmed)
    + (IF lf_trimmed = 1 THEN -1 ELSE 0)
    + (IF suppress_newline THEN 1 ELSE 0)


(***************************************************************************)
(* State.                                                                  *)
(***************************************************************************)
VARIABLES
    \* the engine runs: the input, whether a visualization sink is given
    content, visual,
    \* the run in progress (1..4) and the engine's position in it
    cur, pc,
    \* the line source of the run: buffered bytes and file offset
    buf, off,
    \* the fold's accumulator: Ok((lf_count, total)) or Err
    lf_count, u8_total, acc_err,
    \* the sinks, the line number, the lines read so far
    out, err, line_number, consumed,
    \* what each finished run returned and wrote
    results,
    \* environment failures injected so far
    faults,
    \* the batch: the paths given to trim_files and suppress_newline
    files, suppress,
    \* the file system: directory entries (path -> inode, 0 when absent) and
    \* the inodes (data and permission bits)
    dir, inodes,
    \* one task of the parallel iterator per element of files
    w,
    \* trim_files: "running", "returned" (with mapping) or "panicked"
    batch, mapping,
    \* FALSE once the process was interrupted
    alive

engineVars == <<content, visual, cur, pc, buf, off, lf_count, u8_total, acc_err,
                out, err, line_number, consumed, results>>

fileVars == <<files, suppress, dir, inodes, w, batch, mapping, alive>>

vars == <<engineVars, faults, fileVars>>

(***************************************************************************)
(* The engine runs (EngineSpec).  Runs 1 and 2 read the input, runs 3 and  *)
(* 4 the input followed by one '\n'; runs 2 and 4 suppress the newline.    *)
(***************************************************************************)
Runs == 1..4

RunInput(r) == IF r <= 2 THEN content ELSE content \o <<LF>>

RunSuppress(r) == r \in {2, 4}

\* the inputs of the literal scenarios, byte by byte
\* "abc"
ScenarioAbc == <<97, 98, 99>>
\* "   absoi "
ScenarioAbsoi == <<32, 32, 32, 97, 98, 115, 111, 105, 32>>
\* "ab \ncd \n  \n\n  \n"
ScenarioTrailing == <<97, 98, 32, 10, 99, 100, 32, 10, 32, 32, 10, 10, 32, 32, 10>>
\* "ab \t  \r \nabc"
ScenarioCR == <<97, 98, 32, 9, 32, 32, 13, 32, 10, 97, 98, 99>>

Scenarios == {ScenarioAbc, ScenarioAbsoi, ScenarioTrailing, ScenarioCR}

\* the run of the earlier engine, handle_custom, over the input: it follows
\* the runs of trim_custom
HandleRun == 5

NoResult == [state |-> "none", saved |-> 0, out |-> <<>>, err |-> <<>>,
             lines |-> <<>>, pend |-> 0]

EngineInit ==
    /\ content \in Texts(MaxLen) \cup Scenarios
    /\ visual \in BOOLEAN
    /\ cur = 1
    /\ pc = "idle"
    /\ buf = <<>>
    /\ off = 0
    /\ lf_count = 0
    /\ u8_total = 0
    /\ acc_err = FALSE
    /\ out = <<>>
    /\ err = <<>>
    /\ line_number = 0
    /\ consumed = <<>>
    /\ results = [r \in Runs \cup {HandleRun} |-> NoResult]
    /\ faults = 0
    /\ files = <<>>
    /\ suppress = FALSE
    /\ dir = <<>>
    /\ inodes = <<>>
    /\ w = <<>>
    /\ batch = "none"
    /\ mapping = <<>>
    /\ alive = TRUE

\* the run ends: its result is kept and the next run starts from scratch
Finish(st, sv, o, e, ls) ==
    /\ results' = [results EXCEPT ![cur] =
                      [state |-> st, saved |-> sv, out |-> o, err |-> e,
                       lines |-> ls, pend |-> lf_count]]
    /\ cur' = cur + 1
    /\ pc' = "idle"
    /\ buf' = <<>>
    /\ off' = 0
    /\ lf_count' = 0
    /\ u8_total' = 0
    /\ acc_err' = FALSE
    /\ out' = <<>>
    /\ err' = <<>>
    /\ line_number' = 0
    /\ consumed' = <<>>

\* trim_custom is called for the next run
EStart ==
    /\ pc = "idle"
    /\ cur \in Runs
    /\ pc' = "fold"
    /\ UNCHANGED <<content, visual, cur, buf, off, lf_count, u8_total, acc_err,
                   out, err, line_number, consumed, results, faults, fileVars>>

\* one turn of lines.map(unwrap).enumerate().map(..).fold(..): the next line
\* is read, unwrapped, trimmed and given to the fold's closure
EFold ==
    /\ pc = "fold"
    /\ LET r == NextLine(buf, off, RunInput(cur)) IN
       IF ~r.some
       THEN \* the iterator is exhausted: `?` on the fold's result
            IF acc_err
            THEN Finish("err", 0, out, err, consumed) /\ UNCHANGED faults
            ELSE /\ pc' = "newline"
                 /\ UNCHANGED <<cur, buf, off, lf_count, u8_total, acc_err, out, err,
                                line_number, consumed, results, faults>>
       ELSE IF ~r.ok
       THEN \* io::Result::unwrap on a read error panics
            Finish("panic", 0, out, err, consumed) /\ UNCHANGED faults
       ELSE LET t   == Trim(r.line)
                n   == line_number + 1
                acc == FoldAcc(lf_count, u8_total, t, Removed(r.line))
                vis == IF visual THEN Visual(n, r.line) ELSE <<>>
            IN /\ buf' = r.buf
               /\ off' = r.off
               /\ line_number' = n
               /\ consumed' = Append(consumed, r.line)
               /\ UNCHANGED <<cur, pc, results>>
               /\ IF acc_err
                  THEN \* Err(_) => acc
                       UNCHANGED <<lf_count, u8_total, acc_err, out, err, faults>>
                  ELSE \/ \* every write succeeds
                          /\ out' = out \o FoldOut(lf_count, t)
                          /\ err' = IF t = <<>> THEN err ELSE err \o vis
                          /\ lf_count' = acc[1]
                          /\ u8_total' = acc[2]
                          /\ UNCHANGED <<acc_err, faults>>
                       \/ \* write!(out, ..) fails, before or after the newlines
                          /\ t # <<>>
                          /\ faults < MaxFaults
                          /\ \E part \in {<<>>, Lfs(lf_count)} : out' = out \o part
                          /\ acc_err' = TRUE
                          /\ faults' = faults + 1
                          /\ UNCHANGED <<lf_count, u8_total, err>>
                       \/ \* writeln!(err, ..) fails
                          /\ t # <<>>
                          /\ vis # <<>>
                          /\ faults < MaxFaults
                          /\ out' = out \o FoldOut(lf_count, t)
                          /\ acc_err' = TRUE
                          /\ faults' = faults + 1
                          /\ UNCHANGED <<lf_count, u8_total, err>>
    /\ UNCHANGED <<content, visual, fileVars>>

\* if !suppress_newline { write!(out, "\n")? }
ENewline ==
    /\ pc = "newline"
    /\ \/ /\ out' = out \o FinalBytes(RunSuppress(cur))
          /\ pc' = "flush"
          /\ UNCHANGED <<cur, buf, off, lf_count, u8_total, acc_err, err,
                         line_number, consumed, results, faults>>
       \/ /\ ~RunSuppress(cur)
          /\ faults < MaxFaults
          /\ faults' = faults + 1
          /\ Finish("err", 0, out, err, consumed)
    /\ UNCHANGED <<content, visual, fileVars>>

\* out.flush()?; err.flush()?; Ok(bytes_saved)
EFlush ==
    /\ pc = "flush"
    /\ \/ /\ Finish("ok", BytesSaved(lf_count, u8_total, RunSuppress(cur)),
                    out, err, consumed)
          /\ UNCHANGED faults
       \/ /\ faults < MaxFaults
          /\ faults' = faults + 1
          /\ Finish("err", 0, out, err, consumed)
    /\ UNCHANGED <<content, visual, fileVars>>

(***************************************************************************)
(* The earlier engine, handle_custom (main.rs), run over the same input.   *)
(***************************************************************************)
HandleAccAsEngine(count, total, trimmed, saved) ==
    IF trimmed = <<>> THEN <<count + 1, total + saved>> ELSE <<1, total + saved>>

\* the accumulator (count, total) its closure returns for one line: total is
\* left as it is when the line has no visualization
HandleAcc(count, total, trimmed, saved) ==
    IF trimmed = <<>> THEN <<count + 1, total + saved>>
    ELSE IF saved > 0 THEN <<0, total + saved>>
    ELSE <<0, total>>

\* what its closure writes to out for one line: write!(out, lfs) and
\* writeln!(out, line)
HandleOut(count, trimmed) ==
    IF trimmed = <<>> THEN <<>> ELSE Lfs(count) \o trimmed \o <<LF>>

\* the two lines it writes to err after the fold
HandleSummary(count, total) == [trailing |-> count, saved |-> total + count]

\* handle_custom is called
HStart ==
    /\ pc = "idle"
    /\ cur = HandleRun
    /\ pc' = "hfold"
    /\ UNCHANGED <<content, visual, cur, buf, off, lf_count, u8_total, acc_err,
                   out, err, line_number, consumed, results, faults, fileVars>>

\* one turn of its fold
HFold ==
    /\ pc = "hfold"
    /\ LET r == NextLine(buf, off, content) IN
       IF ~r.some
       THEN IF acc_err
            THEN Finish("err", 0, out, err, consumed) /\ UNCHANGED faults
            ELSE /\ pc' = "summary"
                 /\ UNCHANGED <<cur, buf, off, lf_count, u8_total, acc_err, out, err,
                                line_number, consumed, results, faults>>
       ELSE IF ~r.ok
       THEN Finish("panic", 0, out, err, consumed) /\ UNCHANGED faults
       ELSE LET t   == Trim(r.line)
                n   == line_number + 1
                acc == HandleAcc(lf_count, u8_total, t, Removed(r.line))
                vis == Visual(n, r.line)
            IN /\ buf' = r.buf
               /\ off' = r.off
               /\ line_number' = n
               /\ consumed' = Append(consumed, r.line)
               /\ UNCHANGED <<cur, pc, results>>
               /\ IF acc_err
                  THEN \* Err(_) => results
                       UNCHANGED <<lf_count, u8_total, acc_err, out, err, faults>>
                  ELSE \/ \* every write succeeds
                          /\ out' = out \o HandleOut(lf_count, t)
                          /\ err' = IF t = <<>> THEN err ELSE err \o vis
                          /\ lf_count' = acc[1]
                          /\ u8_total' = acc[2]
                          /\ UNCHANGED <<acc_err, faults>>
                       \/ \* write!(out, lfs) or writeln!(out, line) fails
                          /\ t # <<>>
                          /\ faults < MaxFaults
                          /\ \E part \in {<<>>, Lfs(lf_count)} : out' = out \o part
                          /\ acc_err' = TRUE
                          /\ faults' = faults + 1
                          /\ UNCHANGED <<lf_count, u8_total, err>>
                       \/ \* writeln!(err, visual) fails
                          /\ t # <<>>
                          /\ vis # <<>>
                          /\ faults < MaxFaults
                          /\ out' = out \o HandleOut(lf_count, t)
                          /\ acc_err' = TRUE
                          /\ faults' = faults + 1
                          /\ UNCHANGED <<lf_count, u8_total, err>>
    /\ UNCHANGED <<content, visual, fileVars>>

\* the summary written to err, the flushes, Ok(())
HSummary ==
    /\ pc = "summary"
    /\ \/ /\ Finish("ok", 0, out, Append(err, HandleSummary(lf_count, u8_total)), consumed)
          /\ UNCHANGED faults
       \/ /\ faults < MaxFaults
          /\ faults' = faults + 1
          /\ Finish("err", 0, out, err, consumed)
    /\ UNCHANGED <<content, visual, fileVars>>

EngineNext == EStart \/ EFold \/ ENewline \/ EFlush \/ HStart \/ HFold \/ HSummary

EngineSpec == EngineInit /\ [][EngineNext]_vars

(***************************************************************************)
(* The file system and the batch (FileSpec).                               *)
(***************************************************************************)
\* the files on disk: two share a basename, one holds a byte that is no UTF-8
SrcPaths == {<<"d1", "a">>, <<"d2", "a">>, <<"d1", "b">>, <<"d2", "c">>}

HashConstant(basename) == "h1"

\* hash_default(&basename): a function of the basename alone
Hash(basename) ==
    CASE basename = "a" -> "h1"
      [] basename = "b" -> "h2"
      [] basename = "c" -> "h3"

\* env::temp_dir().join(format!("{}.trim", hash_default(&basename)))
TempPath(path) == <<"tmp", Hash(path[2])>>

WriteTargetOriginal(path) == path

\* the path OpenOptions opens with write(true).truncate(true)
WriteTarget(path) == TempPath(path)

AllPaths == SrcPaths \cup {TempPath(p) : p \in SrcPaths}

\* the content of each file before the batch
Orig(path) ==
    CASE path = <<"d1", "a">> -> <<A, SP, LF, SP, LF>>
      [] path = <<"d2", "a">> -> <<SP, A, SP>>
      [] path = <<"d1", "b">> -> <<A, CR, LF>>
      [] path = <<"d2", "c">> -> <<BAD>>

\* the permission bits of each file before the batch
OrigMode(path) ==
    CASE path = <<"d1", "a">> -> "rw-r--r--"
      [] path = <<"d2", "a">> -> "rw-------"
      [] path = <<"d1", "b">> -> "rwxr-xr-x"
      [] path = <<"d2", "c">> -> "rw-rw-r--"

\* the inode each file starts with
OrigIno(path) ==
    CASE path = <<"d1", "a">> -> 1
      [] path = <<"d2", "a">> -> 2
      [] path = <<"d1", "b">> -> 3
      [] path = <<"d2", "c">> -> 4

\* a temp file left behind by an earlier, interrupted run: the tasks of the
\* basename "a" find one and remove it, the others find none
StalePath == TempPath(<<"d1", "a">>)

StaleFile == [data |-> <<A, A>>, mode |-> "rw-rw-rw-"]

\* an order of the paths, to list a batch by
Rank(path) == OrigIno(path)

\* the batches: the tasks of the parallel iterator are scheduled in any order,
\* so a batch is listed once, its paths in the order of their rank
Batches ==
    {b \in UNION {[1..n -> SrcPaths] : n \in 1..MaxBatch} :
        \A i \in 1..(Len(b) - 1) : Rank(b[i]) <= Rank(b[i + 1])}

Tasks == 1..Len(files)

NewTask == [pc |-> "exists", tmp |-> 0, toff |-> 0, src |-> 0, buf |-> <<>>, off |-> 0,
            lf_count |-> 0, u8_total |-> 0, acc_err |-> FALSE, saved |-> 0]

FileInit ==
    /\ files \in Batches
    /\ suppress \in BOOLEAN
    /\ dir = [p \in AllPaths |->
                IF p \in SrcPaths THEN OrigIno(p)
                ELSE IF p = StalePath THEN Cardinality(SrcPaths) + 1 ELSE 0]
    /\ inodes = [i \in 1..Cardinality(SrcPaths) |->
                   LET p == CHOOSE q \in SrcPaths : OrigIno(q) = i
                   IN [data |-> Orig(p), mode |-> OrigMode(p)]]
                \o <<StaleFile>>
    /\ w = [i \in 1..Len(files) |-> NewTask]
    /\ batch = "running"
    /\ mapping = <<>>
    /\ alive = TRUE
    /\ faults = 0
    /\ content = <<>>
    /\ visual = FALSE
    /\ cur = 0
    /\ pc = "none"
    /\ buf = <<>>
    /\ off = 0
    /\ lf_count = 0
    /\ u8_total = 0
    /\ acc_err = FALSE
    /\ out = <<>>
    /\ err = <<>>
    /\ line_number = 0
    /\ consumed = <<>>
    /\ results = <<>>

\* a write of bytes at offset at of a file: a write past the end leaves a hole,
\* a write of nothing changes nothing
WriteAt(data, at, bytes) ==
    IF bytes = <<>> THEN data
    ELSE LET padded == IF at > Len(data)
                       THEN data \o [i \in 1..(at - Len(data)) |-> NUL]
                       ELSE data
         IN SubSeq(padded, 1, at) \o bytes
            \o SubSeq(padded, at + Len(bytes) + 1, Len(padded))

\* task i may take a step; a step of a task leaves the batch as it is
\* whether the disk has room for a write of bytes at offset at
Fits(data, at, bytes) == Len(WriteAt(data, at, bytes)) <= MaxFile

Running(i) ==
    /\ alive
    /\ batch = "running"
    /\ i \in Tasks
    /\ UNCHANGED <<files, suppress, batch, mapping, alive, engineVars>>

\* task i moves on; a task that has ended has dropped its reader and its file
Step(i, to) ==
    w' = [w EXCEPT ![i] = IF to \in {"ok", "err", "panic"}
                          THEN [NewTask EXCEPT !.pc = to, !.saved = w[i].saved]
                          ELSE [@ EXCEPT !.pc = to]]

FaultAfterReplacing(i) ==
    /\ faults < MaxFaults
    /\ faults' = faults + 1
    /\ Step(i, "err")
    /\ dir' = [dir EXCEPT ![files[i]] = dir[TempPath(files[i])]]
    /\ UNCHANGED inodes

\* an environment failure: the call returns Err and `?` returns it
Fault(i) ==
    /\ faults < MaxFaults
    /\ faults' = faults + 1
    /\ Step(i, "err")
    /\ UNCHANGED <<dir, inodes>>

\* if copy_path.exists()
WExists(i) ==
    /\ Running(i)
    /\ w[i].pc = "exists"
    /\ Step(i, IF dir[TempPath(files[i])] # 0 THEN "remove" ELSE "copy")
    /\ UNCHANGED <<dir, inodes, faults>>

\* remove_file(&copy_path)?
WRemove(i) ==
    /\ Running(i)
    /\ w[i].pc = "remove"
    /\ \/ /\ dir[TempPath(files[i])] # 0
          /\ dir' = [dir EXCEPT ![TempPath(files[i])] = 0]
          /\ Step(i, "copy")
          /\ UNCHANGED <<inodes, faults>>
       \/ /\ dir[TempPath(files[i])] = 0
          /\ Step(i, "err")
          /\ UNCHANGED <<dir, inodes, faults>>
       \/ Fault(i)

CopyOfBytesOnly(from) == [data |-> from.data, mode |-> "rw-r--r--"]

\* what copy() gives the destination: the bytes and the permission bits
CopyOf(from) == [data |-> from.data, mode |-> from.mode]

\* copy(path, &copy_path)?: the bytes and the permission bits, into the file at
\* copy_path if there is one and into a new file otherwise
WCopy(i) ==
    /\ Running(i)
    /\ w[i].pc = "copy"
    /\ \/ LET from == CopyOf(inodes[dir[files[i]]])
              tp   == TempPath(files[i])
          IN /\ IF dir[tp] # 0
                THEN /\ inodes' = [inodes EXCEPT ![dir[tp]] = from]
                     /\ UNCHANGED dir
                ELSE /\ inodes' = Append(inodes, from)
                     /\ dir' = [dir EXCEPT ![tp] = Len(inodes) + 1]
             /\ Step(i, "open")
             /\ UNCHANGED faults
       \/ Fault(i)

\* OpenOptions::new().write(true).truncate(true).open(&copy_path)?
WOpen(i) ==
    /\ Running(i)
    /\ w[i].pc = "open"
    /\ \/ LET t == dir[WriteTarget(files[i])]
          IN /\ t # 0
             /\ inodes' = [inodes EXCEPT ![t].data = <<>>]
             /\ w' = [w EXCEPT ![i].pc = "readlines", ![i].tmp = t, ![i].toff = 0]
             /\ UNCHANGED <<dir, faults>>
       \/ /\ dir[WriteTarget(files[i])] = 0
          /\ Step(i, "err")
          /\ UNCHANGED <<dir, inodes, faults>>
       \/ Fault(i)

\* readlines(path)?: File::open(path)
WReadlines(i) ==
    /\ Running(i)
    /\ w[i].pc = "readlines"
    /\ \/ /\ w' = [w EXCEPT ![i].pc = "fold", ![i].src = dir[files[i]]]
          /\ UNCHANGED <<dir, inodes, faults>>
       \/ Fault(i)

\* one turn of the engine's fold, reading the source and writing the temp file
WFold(i) ==
    /\ Running(i)
    /\ w[i].pc = "fold"
    /\ UNCHANGED dir
    /\ LET t0 == w[i]
           r  == NextLine(t0.buf, t0.off, inodes[t0.src].data)
       IN IF ~r.some
          THEN /\ Step(i, IF t0.acc_err THEN "err" ELSE "newline")
               /\ UNCHANGED <<inodes, faults>>
          ELSE IF ~r.ok
          THEN /\ Step(i, "panic")
               /\ UNCHANGED <<inodes, faults>>
          ELSE LET t     == Trim(r.line)
                   acc   == FoldAcc(t0.lf_count, t0.u8_total, t, Removed(r.line))
                   bytes == FoldOut(t0.lf_count, t)
               IN IF t0.acc_err
                  THEN /\ w' = [w EXCEPT ![i].buf = r.buf, ![i].off = r.off]
                       /\ UNCHANGED <<inodes, faults>>
                  ELSE IF ~Fits(inodes[t0.tmp].data, t0.toff, bytes)
                  THEN \* the disk is full: write!(out, ..) fails
                       /\ w' = [w EXCEPT ![i].buf = r.buf, ![i].off = r.off,
                                         ![i].acc_err = TRUE]
                       /\ UNCHANGED <<inodes, faults>>
                  ELSE \/ /\ inodes' = [inodes EXCEPT ![t0.tmp].data =
                                           WriteAt(@, t0.toff, bytes)]
                          /\ w' = [w EXCEPT ![i].buf = r.buf, ![i].off = r.off,
                                            ![i].toff = @ + Len(bytes),
                                            ![i].lf_count = acc[1],
                                            ![i].u8_total = acc[2]]
                          /\ UNCHANGED faults
                       \/ /\ t # <<>>
                          /\ faults < MaxFaults
                          /\ faults' = faults + 1
                          /\ \E part \in {<<>>, Lfs(t0.lf_count)} :
                                /\ inodes' = [inodes EXCEPT ![t0.tmp].data =
                                                 WriteAt(@, t0.toff, part)]
                                /\ w' = [w EXCEPT ![i].buf = r.buf, ![i].off = r.off,
                                                  ![i].toff = @ + Len(part),
                                                  ![i].acc_err = TRUE]

\* the final newline, the flush (nothing for a file) and bytes_saved
WNewline(i) ==
    /\ Running(i)
    /\ w[i].pc = "newline"
    /\ \/ /\ Fits(inodes[w[i].tmp].data, w[i].toff, FinalBytes(suppress))
          /\ inodes' = [inodes EXCEPT ![w[i].tmp].data =
                           WriteAt(@, w[i].toff, FinalBytes(suppress))]
          /\ w' = [w EXCEPT ![i].pc = "rename",
                            ![i].toff = @ + Len(FinalBytes(suppress)),
                            ![i].saved = BytesSaved(w[i].lf_count, w[i].u8_total, suppress)]
          /\ UNCHANGED <<dir, faults>>
       \/ /\ ~Fits(inodes[w[i].tmp].data, w[i].toff, FinalBytes(suppress))
          /\ Step(i, "err")
          /\ UNCHANGED <<dir, inodes, faults>>
       \/ ~suppress /\ Fault(i)

\* rename(copy_path, path)?
WRename(i) ==
    /\ Running(i)
    /\ w[i].pc = "rename"
    /\ \/ /\ dir[TempPath(files[i])] # 0
          /\ dir' = [dir EXCEPT ![files[i]] = dir[TempPath(files[i])],
                                ![TempPath(files[i])] = 0]
          /\ Step(i, "ok")
          /\ UNCHANGED <<inodes, faults>>
       \/ /\ dir[TempPath(files[i])] = 0
          /\ Step(i, "err")
          /\ UNCHANGED <<dir, inodes, faults>>
       \/ Fault(i)

Finished(i) == w[i].pc \in {"ok", "err", "panic"}

\* what trim_file returned for task i
Outcome(i) == IF w[i].pc = "ok" THEN [ok |-> TRUE, bytes_saved |-> w[i].saved]
              ELSE [ok |-> FALSE, bytes_saved |-> 0]

OccurrenceFirst(p) ==
    CHOOSE i \in Tasks : files[i] = p /\ \A j \in Tasks : files[j] = p => i <= j

\* the task whose pair the HashMap keeps for a path: the last one inserted
Occurrence(p) ==
    CHOOSE i \in Tasks : files[i] = p /\ \A j \in Tasks : files[j] = p => j <= i

\* .collect(): the pairs are inserted in the order of files, so that a later
\* pair of a path replaces an earlier one; a panic of a task is resumed in the
\* caller once the tasks have ended
Collect ==
    /\ alive
    /\ batch = "running"
    /\ \A i \in Tasks : Finished(i)
    /\ IF \E i \in Tasks : w[i].pc = "panic"
       THEN batch' = "panicked" /\ UNCHANGED mapping
       ELSE /\ batch' = "returned"
            /\ mapping' = [p \in {files[i] : i \in Tasks} |-> Outcome(Occurrence(p))]
    /\ UNCHANGED <<files, suppress, dir, inodes, w, alive, faults, engineVars>>

\* the process is interrupted: the tasks that have not ended are gone with
\* their readers and files, and nothing runs any more
Interrupt ==
    /\ alive
    /\ batch = "running"
    /\ alive' = FALSE
    /\ w' = [i \in Tasks |-> IF Finished(i) THEN w[i] ELSE [NewTask EXCEPT !.pc = "killed"]]
    /\ UNCHANGED <<files, suppress, dir, inodes, batch, mapping, faults, engineVars>>

FileNext ==
    \/ \E i \in Tasks : WExists(i)
    \/ \E i \in Tasks : WRemove(i)
    \/ \E i \in Tasks : WCopy(i)
    \/ \E i \in Tasks : WOpen(i)
    \/ \E i \in Tasks : WReadlines(i)
    \/ \E i \in Tasks : WFold(i)
    \/ \E i \in Tasks : WNewline(i)
    \/ \E i \in Tasks : WRename(i)
    \/ Collect
    \/ Interrupt

FileSpec == FileInit /\ [][FileNext]_vars

(***************************************************************************)
(* What the claims about the engine are stated with.                       *)
(***************************************************************************)
Blank(line) == Trim(line) = <<>>

\* the index of the last line that is non-empty after trimming, 0 if none
LastNonBlank(lines) ==
    IF \E i \in 1..Len(lines) : ~Blank(lines[i])
    THEN CHOOSE i \in 1..Len(lines) :
            ~Blank(lines[i]) /\ \A j \in (i+1)..Len(lines) : Blank(lines[j])
    ELSE 0

\* the trimmed texts of the first n lines joined by single '\n'
RECURSIVE JoinTrim(_, _)
JoinTrim(lines, n) ==
    IF n = 0 THEN <<>>
    ELSE IF n = 1 THEN Trim(lines[1])
    ELSE JoinTrim(lines, n - 1) \o <<LF>> \o Trim(lines[n])

Terminator(suppress_newline) == IF suppress_newline THEN <<>> ELSE <<LF>>

Expected(lines, suppress_newline) ==
    JoinTrim(lines, LastNonBlank(lines)) \o Terminator(suppress_newline)

CountLF(t) == Cardinality({i \in 1..Len(t) : t[i] = LF})

HasBad(t) == \E i \in 1..Len(t) : t[i] = BAD

Ok(r) == results[r].state = "ok"

\* a text with no trailing whitespace on any line, no trailing blank line and
\* no final '\n'
Canon(c) ==
    \/ c = <<>>
    \/ /\ ~HasBad(c)
       /\ ~IsWs(c[Len(c)])
       /\ \A i \in 1..(Len(c) - 1) : c[i + 1] = LF => (c[i] = LF \/ ~IsWs(c[i]))

\* already trimmed content, for a value of suppress_newline
AlreadyTrimmed(c, suppress_newline) ==
    IF suppress_newline THEN Canon(c)
    ELSE c # <<>> /\ c[Len(c)] = LF /\ Canon(SubSeq(c, 1, Len(c) - 1))

(***************************************************************************)
(* C1.  The bytes a successful run writes to out are the trimmed texts of  *)
(* the lines it read, from the first line through the last line that is    *)
(* non-empty after trimming, joined by single '\n', followed by one '\n'   *)
(* exactly when suppress_newline is false.                                 *)
(***************************************************************************)
C1_OutputIsJoinedTrimmedLines ==
    \A r \in Runs : Ok(r) => results[r].out = Expected(results[r].lines, RunSuppress(r))

\* a run over a leading blank line, a line and a trailing blank line
C1_Witness ==
    /\ Ok(3)
    /\ Len(results[3].lines) = 3
    /\ LastNonBlank(results[3].lines) = 2
    /\ Blank(results[3].lines[1])
    /\ results[3].out = <<LF, A, LF>>

(***************************************************************************)
(* C5.  A run whose line source yields a read error ends by returning Err. *)
(***************************************************************************)
C5_ReadErrorIsReturned ==
    \A r \in Runs :
        (results[r].state # "none" /\ HasBad(RunInput(r))) => results[r].state = "err"

(***************************************************************************)
(* C6.  As claimed: bytes_saved is the same with and without               *)
(* suppress_newline.                                                       *)
(***************************************************************************)
C6_SavedIndependentOfSuppress ==
    \A r \in {1, 3} : (Ok(r) /\ Ok(r + 1)) => results[r + 1].saved = results[r].saved

(***************************************************************************)
(* C6, amended.  suppress_newline changes bytes_saved by exactly one: the  *)
(* run that suppresses the newline returns one more.                       *)
(***************************************************************************)
C6_SuppressAddsOne ==
    \A r \in {1, 3} : (Ok(r) /\ Ok(r + 1)) => results[r + 1].saved = results[r].saved + 1

C6_Witness ==
    /\ Ok(1) /\ Ok(2)
    /\ results[1].saved = 2
    /\ results[2].saved = 3

(***************************************************************************)
(* C7.  The run that does not suppress the newline writes the bytes of the *)
(* run that does, followed by one '\n', and returns one less.              *)
(***************************************************************************)
C7_NewlineRelation ==
    \A r \in {1, 3} :
        (Ok(r) /\ Ok(r + 1)) =>
            /\ results[r].out = results[r + 1].out \o <<LF>>
            /\ results[r].saved = results[r + 1].saved - 1

C7_Witness ==
    /\ Ok(3) /\ Ok(4)
    /\ results[3].lines = <<<<A, SP>>, <<>>>>
    /\ results[4].out = <<A>>
    /\ results[3].out = <<A, LF>>
    /\ results[4].saved = 4
    /\ results[3].saved = 3

(***************************************************************************)
(* C8.  For an input c that does not end in '\n', the runs over c and over *)
(* c followed by '\n' write the same bytes and return the same             *)
(* bytes_saved.                                                            *)
(***************************************************************************)
C8_Canonicalization ==
    (content = <<>> \/ content[Len(content)] # LF) =>
        \A r \in {1, 2} :
            (Ok(r) /\ Ok(r + 2)) =>
                /\ results[r].out = results[r + 2].out
                /\ results[r].saved = results[r + 2].saved

C10_TrailingBlankCollapse ==
    \A r \in Runs :
        LET lines == results[r].lines
            k     == LastNonBlank(lines)
            body  == SubSeq(results[r].out, 1,
                            Len(results[r].out) - Len(Terminator(RunSuppress(r))))
        IN (Ok(r) /\ lines # <<>> /\ Blank(lines[Len(lines)])) =>
              /\ results[r].out = body \o Terminator(RunSuppress(r))
              /\ body = JoinTrim(SubSeq(lines, 1, k), k)
              /\ (body = <<>> \/ ~IsWs(body[Len(body)]))
              /\ CountLF(results[r].out) =
                    (IF k = 0 THEN 0 ELSE k - 1) + Len(Terminator(RunSuppress(r)))
              /\ results[r].pend = (Len(lines) - k) + (IF k = 0 THEN 0 ELSE 1)

\* a line followed by two blank lines: three newlines pending, none written
C10_Witness ==
    /\ Ok(4)
    /\ results[4].lines = <<<<A>>, <<>>, <<>>>>
    /\ results[4].pend = 3
    /\ results[4].out = <<A>>

(***************************************************************************)
(* What the claims about files are stated with.                            *)
(***************************************************************************)
\* the bytes at a path; a path with no entry holds no bytes at all
Data(path) == IF dir[path] = 0 THEN <<-1>> ELSE inodes[dir[path]].data

\* the complete trimmed content of a file of the batch
TrimmedOf(path) == Expected(AllLines(Orig(path)), suppress)

(***************************************************************************)
(* C2.  A single run of trim_file: until the rename has completed, also    *)
(* when the run is interrupted or a step fails, the original path holds    *)
(* the original file with the original content; once it has completed, the *)
(* path holds the complete trimmed content.                                *)
(***************************************************************************)
C2_InPlaceSafety ==
    Len(files) = 1 =>
        IF w[1].pc = "ok"
        THEN Data(files[1]) = TrimmedOf(files[1])
        ELSE Data(files[1]) = Orig(files[1]) /\ dir[files[1]] = OrigIno(files[1])

\* the rename has replaced "a \n \n" by its trimmed content, a stale temp file
\* having been in the way
C2_Witness ==
    /\ files = <<<<"d1", "a">>>>
    /\ ~suppress
    /\ w[1].pc = "ok"
    /\ dir[StalePath] = 0
    /\ dir[<<"d1", "a">>] # OrigIno(<<"d1", "a">>)
    /\ Data(<<"d1", "a">>) = <<A, LF>>

(***************************************************************************)
(* C3.  Two tasks replacing two different files that share a basename,     *)
(* with no failure of the environment: no task fails, neither path ever    *)
(* holds anything but its original or its own trimmed content, and when    *)
(* both have ended each file holds its own trimmed content.                *)
(***************************************************************************)
C3_NoTempCollision ==
    (/\ Len(files) = 2
     /\ files[1] # files[2]
     /\ files[1][2] = files[2][2]
     /\ faults = 0) =>
        /\ \A i \in Tasks : w[i].pc # "err"
        /\ \A i \in Tasks : Data(files[i]) \in {Orig(files[i]), TrimmedOf(files[i])}
        /\ (\A i \in Tasks : Finished(i)) =>
              \A i \in Tasks : w[i].pc = "ok" /\ Data(files[i]) = TrimmedOf(files[i])

(***************************************************************************)
(* C4.  When a path of the batch fails, every other path is still         *)
(* processed to its end and trim_files returns a mapping that holds an     *)
(* outcome for the failed path and for every other path.                   *)
(***************************************************************************)
C4_FailureIsolated ==
    \A i, j \in Tasks :
        (/\ batch # "running"
         /\ w[i].pc \in {"err", "panic"}
         /\ files[j] # files[i]) =>
            /\ Finished(j)
            /\ batch = "returned"
            /\ files[i] \in DOMAIN mapping
            /\ files[j] \in DOMAIN mapping

(***************************************************************************)
(* What the claims about the lines of the output are stated with.          *)
(***************************************************************************)
\* the pieces of a text between its '\n's: n '\n's give n + 1 pieces
RECURSIVE Pieces(_)
Pieces(t) ==
    LET i == FirstLF(t)
    IN IF i = 0 THEN <<t>>
       ELSE <<SubSeq(t, 1, i - 1)>> \o Pieces(SubSeq(t, i + 1, Len(t)))

\* lines s..e are a maximal run of blank lines that a non-blank line follows
BlankRun(lines, s, e) ==
    /\ 1 <= s /\ s <= e /\ e < Len(lines)
    /\ \A i \in s..e : Blank(lines[i])
    /\ ~Blank(lines[e + 1])
    /\ (s = 1 \/ ~Blank(lines[s - 1]))

(***************************************************************************)
(* C11.  For every maximal run of k >= 1 blank lines that a non-blank line *)
(* follows, a successful run writes exactly k empty lines at that          *)
(* position: the pieces of the output at the positions of the run are      *)
(* empty, the piece before them (if any) is the trimmed text of the        *)
(* preceding non-blank line and the piece after them is the trimmed text   *)
(* of the non-blank line that follows.                                     *)
(***************************************************************************)
C11_InteriorBlanksPreserved ==
    \A r \in Runs :
        Ok(r) =>
            LET lines == results[r].lines
                ps    == Pieces(results[r].out)
            IN \A s, e \in 1..Len(lines) :
                  BlankRun(lines, s, e) =>
                     /\ Len(ps) > e
                     /\ \A i \in s..e : ps[i] = <<>>
                     /\ ps[e + 1] = Trim(lines[e + 1])
                     /\ (s > 1 => ps[s - 1] = Trim(lines[s - 1]) /\ ps[s - 1] # <<>>)

\* "a\n\na": a blank line between two lines, kept as one empty line
C11_Witness ==
    /\ Ok(1)
    /\ results[1].lines = <<<<A>>, <<>>, <<A>>>>
    /\ BlankRun(results[1].lines, 2, 2)
    /\ results[1].out = <<A, LF, LF, A, LF>>


C14_LiteralScenarios ==
    Ok(1) =>
        /\ content = ScenarioAbc =>
              results[1].out = <<97, 98, 99, 10>> /\ results[1].saved = 1
        /\ content = ScenarioAbsoi =>
              results[1].out = <<32, 32, 32, 97, 98, 115, 111, 105, 10>>
              /\ results[1].saved = 1
        /\ content = ScenarioTrailing =>
              results[1].out = <<97, 98, 10, 99, 100, 10>> /\ results[1].saved = 11
        /\ content = ScenarioCR =>
              results[1].out = <<97, 98, 10, 97, 98, 99, 10>> /\ results[1].saved = 7

(***************************************************************************)
(* C14, amended.  The same outputs, with the values returned when the      *)
(* newline is written: 0 for "abc", 1 for "   absoi ", 10 for              *)
(* "ab \ncd \n  \n\n  \n" and 6 for "ab \t  \r \nabc".                      *)
(***************************************************************************)
C14_LiteralScenariosWritten ==
    Ok(1) =>
        /\ content = ScenarioAbc =>
              results[1].out = <<97, 98, 99, 10>> /\ results[1].saved = 0
        /\ content = ScenarioAbsoi =>
              results[1].out = <<32, 32, 32, 97, 98, 115, 111, 105, 10>>
              /\ results[1].saved = 1
        /\ content = ScenarioTrailing =>
              results[1].out = <<97, 98, 10, 99, 100, 10>> /\ results[1].saved = 10
        /\ content = ScenarioCR =>
              results[1].out = <<97, 98, 10, 97, 98, 99, 10>> /\ results[1].saved = 6

\* the run over "ab \t  \r \nabc": the '\r' is trimmed as whitespace
C14_Witness ==
    /\ Ok(1)
    /\ content = ScenarioCR
    /\ results[1].lines = <<<<97, 98, 32, 9, 32, 32, 13, 32>>, <<97, 98, 99>>>>
    /\ results[1].out = <<97, 98, 10, 97, 98, 99, 10>>
    /\ results[1].saved = 6

(***************************************************************************)
(* What the claims about the visualization are stated with.                *)
(***************************************************************************)
\* one record for each of the first n lines that lost bytes, in line order
RECURSIVE Records(_, _)
Records(lines, n) ==
    IF n = 0 THEN <<>>
    ELSE Records(lines, n - 1) \o Visual(n, lines[n])

(***************************************************************************)
(* C15.  With a visualization sink, a successful run writes to it exactly  *)
(* one record for every line that lost bytes, blank after trimming or not, *)
(* and none for the other lines; the records are in line order and carry   *)
(* the 1-based number of their line.                                       *)
(***************************************************************************)
C15_RecordPerTrimmedLine ==
    \A r \in Runs :
        (Ok(r) /\ visual) =>
            results[r].err = Records(results[r].lines, Len(results[r].lines))

(***************************************************************************)
(* C16.  When a step of trim_file fails (removing the stale temp file, the *)
(* copy, opening the temp file, opening the source, a write of the engine  *)
(* or the rename), trim_file returns Err for the file, the rename has not  *)
(* taken effect and the original path holds the original file with the     *)
(* original content.  Stated for every task of a batch that shares its     *)
(* basename with no other task.                                            *)
(***************************************************************************)
C16_FailureLeavesOriginal ==
    \A i \in Tasks :
        (/\ w[i].pc = "err"
         /\ \A j \in Tasks \ {i} : files[j][2] # files[i][2]) =>
            /\ Data(files[i]) = Orig(files[i])
            /\ dir[files[i]] = OrigIno(files[i])
            /\ ~Outcome(i).ok
            /\ batch = "returned" => ~mapping[files[i]].ok

\* the rename failed: the temp file holds the complete trimmed content, the
\* original is as it was
C16_Witness ==
    /\ files = <<<<"d1", "a">>>>
    /\ w[1].pc = "err"
    /\ faults = 1
    /\ dir[TempPath(files[1])] # 0
    /\ Data(TempPath(files[1])) = TrimmedOf(files[1])
    /\ Data(files[1]) = Orig(files[1])
    /\ batch = "returned"
    /\ ~mapping[files[1]].ok

(***************************************************************************)
(* What the claims about a batch are stated with.                          *)
(***************************************************************************)
\* the accumulator of the fold after the first n lines, no write failing
RECURSIVE AccAfter(_, _)
AccAfter(lines, n) ==
    IF n = 0 THEN <<0, 0>>
    ELSE LET a == AccAfter(lines, n - 1)
         IN FoldAcc(a[1], a[2], Trim(lines[n]), Removed(lines[n]))

\* the bytes_saved of trimming a file of the batch alone
SavedAlone(path) ==
    LET a == AccAfter(AllLines(Orig(path)), Len(AllLines(Orig(path))))
    IN BytesSaved(a[1], a[2], suppress)

\* the paths of the batch have pairwise different basenames, hold valid text
\* and no call of the environment has failed
DistinctBasenames ==
    /\ \A i, j \in Tasks : i # j => files[i][2] # files[j][2]
    /\ \A i \in Tasks : ~HasBad(Orig(files[i]))
    /\ faults = 0

(***************************************************************************)
(* C17.  In a batch of paths with pairwise different basenames, processed  *)
(* concurrently: no two tasks use the same temp path or write the same     *)
(* temp file, no task fails, an original path never holds anything but its *)
(* original or its own trimmed content, and in the mapping returned every  *)
(* file has an Ok outcome with the bytes_saved of trimming it alone, the   *)
(* file holding its own trimmed content.                                   *)
(***************************************************************************)
C17_DistinctBasenamesIndependent ==
    DistinctBasenames =>
        /\ \A i, j \in Tasks :
              i # j => /\ TempPath(files[i]) # TempPath(files[j])
                       /\ (w[i].tmp # 0 => w[i].tmp # w[j].tmp)
        /\ \A i \in Tasks :
              /\ w[i].pc \notin {"err", "panic"}
              /\ Data(files[i]) \in {Orig(files[i]), TrimmedOf(files[i])}
              /\ w[i].pc = "ok" => Data(files[i]) = TrimmedOf(files[i])
        /\ batch = "returned" =>
              \A i \in Tasks :
                  /\ Data(files[i]) = TrimmedOf(files[i])
                  /\ mapping[files[i]] = [ok |-> TRUE, bytes_saved |-> SavedAlone(files[i])]

\* "a \n \n" and "a\r\n" trimmed side by side
C17_Witness ==
    /\ files = <<<<"d1", "a">>, <<"d1", "b">>>>
    /\ ~suppress
    /\ DistinctBasenames
    /\ batch = "returned"
    /\ Data(<<"d1", "a">>) = <<A, LF>>
    /\ Data(<<"d1", "b">>) = <<A, LF>>
    /\ mapping[<<"d1", "a">>] = [ok |-> TRUE, bytes_saved |-> 4]
    /\ mapping[<<"d1", "b">>] = [ok |-> TRUE, bytes_saved |-> 0]

(***************************************************************************)
(* C18.  The keys of the mapping trim_files returns are exactly the paths  *)
(* given to it: every path of the input is a key, nothing else is, and a   *)
(* path given more than once is one key, whose outcome is that of its      *)
(* last occurrence.                                                        *)
(***************************************************************************)
C18_MappingKeys ==
    batch = "returned" =>
        /\ \A i \in Tasks : files[i] \in DOMAIN mapping
        /\ \A p \in DOMAIN mapping : \E i \in Tasks : files[i] = p
        /\ \A i \in Tasks :
              (\A j \in Tasks : j > i => files[j] # files[i]) =>
                  mapping[files[i]] = Outcome(i)

\* a path given twice: the first task replaced the file, the second failed
\* and its Err is the outcome of the path
C18_Witness ==
    /\ files = <<<<"d1", "a">>, <<"d1", "a">>>>
    /\ batch = "returned"
    /\ w[1].pc = "ok"
    /\ w[2].pc = "err"
    /\ DOMAIN mapping = {<<"d1", "a">>}
    /\ ~mapping[<<"d1", "a">>].ok

\* the permission bits of the file at a path
Mode(path) == IF dir[path] = 0 THEN "none" ELSE inodes[dir[path]].mode

\* the task holds the temp file it copied
HasTemp(i) == w[i].pc \in {"open", "readlines", "fold", "newline", "rename"}

(***************************************************************************)
(* C19.  For a task that shares its basename with no other task: from the  *)
(* copy on, the temp file has the permission bits of the original, through *)
(* the truncation and the writes; after the rename the file at the         *)
(* original path has the permission bits the original had.                 *)
(***************************************************************************)
C19_PermissionsPreserved ==
    \A i \in Tasks :
        (\A j \in Tasks \ {i} : files[j][2] # files[i][2]) =>
            /\ HasTemp(i) => Mode(TempPath(files[i])) = OrigMode(files[i])
            /\ w[i].pc = "ok" => Mode(files[i]) = OrigMode(files[i])

\* the executable "a\r\n" replaced by a new file that is executable too
C19_Witness ==
    /\ files = <<<<"d1", "b">>>>
    /\ w[1].pc = "ok"
    /\ dir[<<"d1", "b">>] # OrigIno(<<"d1", "b">>)
    /\ Data(<<"d1", "b">>) # Orig(<<"d1", "b">>)
    /\ Mode(<<"d1", "b">>) = "rwxr-xr-x"

(***************************************************************************)
(* C20.  The bytes_saved a successful run returns is the number of bytes   *)
(* of its input minus the number of bytes it wrote to out.                 *)
(***************************************************************************)
C20_SavedIsGroundTruth ==
    \A r \in Runs :
        Ok(r) => results[r].saved = Len(RunInput(r)) - Len(results[r].out)

(***************************************************************************)
(* C21.  When a successful run reached the end of its input with exactly   *)
(* one newline pending, the last line it consumed was non-empty after      *)
(* trimming: the 1 that is subtracted from bytes_saved is the deferred     *)
(* newline of a non-empty last line.                                       *)
(***************************************************************************)
C21_OnePendingMeansNonBlankLast ==
    \A r \in Runs :
        (Ok(r) /\ results[r].pend = 1) =>
            /\ results[r].lines # <<>>
            /\ ~Blank(results[r].lines[Len(results[r].lines)])

\* 1 plus the number of blank lines since the last non-blank line, or the
\* number of lines when none of them is non-blank
PendingOf(lines) ==
    (Len(lines) - LastNonBlank(lines)) + (IF LastNonBlank(lines) = 0 THEN 0 ELSE 1)

(***************************************************************************)
(* C22.  The counter of pending newlines in the fold, while no write has   *)
(* failed: it is 0 before a line is consumed and never negative; after     *)
(* every consumed line it is 1 plus the number of blank lines since the    *)
(* last non-blank line, or the number of lines consumed when none was      *)
(* non-blank.  A blank line adds exactly one to it and writes nothing to   *)
(* out; a non-blank line writes as many '\n' as the counter says, then its *)
(* trimmed text, and sets the counter to exactly 1.                        *)
(***************************************************************************)
C22_PendingCounter ==
    /\ []((cur \in Runs /\ ~acc_err) => (lf_count >= 0 /\ lf_count = PendingOf(consumed)))
    /\ [][(cur \in Runs /\ consumed' # consumed /\ consumed' # <<>> /\ ~acc_err') =>
            LET line == consumed'[Len(consumed')]
            IN /\ consumed' = Append(consumed, line)
               /\ IF Blank(line)
                  THEN lf_count' = lf_count + 1 /\ out' = out
                  ELSE out' = out \o Lfs(lf_count) \o Trim(line) /\ lf_count' = 1]_vars

\* "a\n\n\n" consumed: three newlines pending, only "a" written
C22_Witness ==
    /\ cur = 1
    /\ pc = "fold"
    /\ ~acc_err
    /\ consumed = <<<<A>>, <<>>, <<>>>>
    /\ lf_count = 3
    /\ out = <<A>>

(***************************************************************************)
(* C23.  Once a write to out or to the visualization sink has failed, the  *)
(* run writes nothing more to either sink, consumes no further line of its *)
(* source and returns the error.                                           *)
(***************************************************************************)
C23_WriteFailureStopsTheRun ==
    /\ [][(cur \in Runs /\ acc_err /\ cur' = cur) =>
            (out' = out /\ err' = err /\ consumed' = consumed)]_vars
    /\ [][(cur \in Runs /\ acc_err /\ cur' # cur) => results'[cur].state = "err"]_vars

\* the path is given to trim_files more than once
Repeated(path) == \E i, j \in Tasks : i # j /\ files[i] = path /\ files[j] = path

(***************************************************************************)
(* C24.  For a path given to trim_files more than once, with no failure of *)
(* the environment, under every interleaving of the runs on it: the path   *)
(* never holds anything but its original or its complete trimmed content,  *)
(* and in the mapping returned its outcome is Ok, the path holding the     *)
(* complete trimmed content.                                               *)
(***************************************************************************)
C24_RepeatedPathSafe ==
    \A i \in Tasks :
        (Repeated(files[i]) /\ ~HasBad(Orig(files[i])) /\ faults = 0) =>
            /\ Data(files[i]) \in {Orig(files[i]), TrimmedOf(files[i])}
            /\ batch = "returned" =>
                  /\ Data(files[i]) = TrimmedOf(files[i])
                  /\ mapping[files[i]].ok

(***************************************************************************)
(* C25.  The temp file of a task lies in the directory of the original     *)
(* file: the rename swaps two entries of one directory.                    *)
(***************************************************************************)
C25_TempIsSibling ==
    \A i \in Tasks :
        HasTemp(i) =>
            /\ TempPath(files[i])[1] = files[i][1]
            /\ \A p \in AllPaths : (w[i].tmp # 0 /\ dir[p] = w[i].tmp) => p[1] = files[i][1]

\* the trimmed texts of the first n lines, each followed by one '\n'
RECURSIVE Terminated(_, _)
Terminated(lines, n) ==
    IF n = 0 THEN <<>>
    ELSE Terminated(lines, n - 1) \o Trim(lines[n]) \o <<LF>>

(***************************************************************************)
(* C26.  A successful run of handle_custom writes to out the trimmed text  *)
(* of every line up to the last non-blank one, each followed by exactly    *)
(* one '\n' (a blank line among them is an empty line), nothing for the    *)
(* blank lines after it and nothing at all when every line is blank; when  *)
(* a line is non-blank, these are the bytes trim_custom writes for the     *)
(* same input with suppress_newline false.                                 *)
(***************************************************************************)
C26_HandleCustomAgrees ==
    results[HandleRun].state = "ok" =>
        LET lines == results[HandleRun].lines
            k     == LastNonBlank(lines)
        IN /\ results[HandleRun].out = Terminated(lines, k)
           /\ (k = 0 => results[HandleRun].out = <<>>)
           /\ (k > 0 /\ Ok(1)) => results[HandleRun].out = results[1].out

\* "\na\n\n": an empty line, "a", and the trailing blank line dropped
C26_Witness ==
    /\ results[HandleRun].state = "ok"
    /\ Ok(1)
    /\ content = <<LF, A, LF, LF>>
    /\ results[HandleRun].lines = <<<<>>, <<A>>, <<>>>>
    /\ results[HandleRun].out = <<LF, A, LF>>
    /\ results[1].out = <<LF, A, LF>>

=============================================================================
